---- MODULE Spec2Model ----
(***************************************************************************)
(* Model of tools/generate_arabic_font.py: the size search                 *)
(* (find_best_font_size), the two passes of main over the glyph repertoire *)
(* (global vertical bounds, per-glyph column packing) and the assembly of  *)
(* the raw font table.                                                     *)
(*                                                                         *)
(* The rasterizer (PIL) is the environment: a face is the set of canvas    *)
(* cells it paints for each mapped code, with their brightness; every      *)
(* other cell of the canvas is 0 (Image.new('L', ..., 0)).                 *)
(***************************************************************************)
EXTENDS Integers, Sequences, FiniteSets, TLC

(* ---------------- configuration (lines 39-44) ---------------- *)
FIRST_CHAR == 32
TARGET_MAX_HEIGHT == 11
PIXEL_THRESHOLD == 80
\* side of the render canvas; 80 in the source, scaled down here
CANVAS_SZ == 12
\* the candidate sizes are range(SIZE_FIRST, SizeStop); 50 in the source
SIZE_FIRST == 6
SizeStop == 9
\* value of `best` before any candidate has been accepted
BEST_DEFAULT == 8
\* a face paints at most MaxInk cells over the whole repertoire
MaxInk == 2

\* The repertoire window, sampled: a Latin letter (0x41), an Arabic form
\* (0x87), the SPACE code (0xF0) and one code without a mapping (0xF1 here;
\* the shipped table maps every code of the window except 0xF0).
Codes == <<65, 135, 240, 241>>
CHAR_COUNT == Len(Codes)
GLYPH_MAP == {65, 135}
SPACE_CODE == 240

is_latin(code) == code >= 32 /\ code <= 126

(* ---------------- integer helpers ---------------- *)
Min2(a, b) == IF a <= b THEN a ELSE b
Max2(a, b) == IF a >= b THEN a ELSE b
MinOf(S) == CHOOSE m \in S : \A n \in S : m <= n
MaxOf(S) == CHOOSE m \in S : \A n \in S : m >= n
Pow2(k) == 2 ^ k
\* bit k of the byte b
Bit(b, k) == (b \div Pow2(k)) % 2
\* b | (1 << k)
BitOr(b, k) == IF Bit(b, k) = 1 THEN b ELSE b + Pow2(k)
\* [0] * n   (the empty list when n <= 0)
Zeros(n) == [k \in 1..n |-> 0]

(* ---------------- the rasterizer's output ---------------- *)
\* columns a glyph may paint: the draw origin canvas_sz // 4 and its neighbour
InkCols == {CANVAS_SZ \div 4, (CANVAS_SZ \div 4) + 1}
InkRows == 0..(CANVAS_SZ - 1)
\* a painted cell is fully bright or, for at most one cell of a face (an
\* anti-aliased edge), exactly at the threshold
Levels == {PIXEL_THRESHOLD, 255}
FontCells == [code : GLYPH_MAP, x : InkCols, y : InkRows, v : Levels]

RECURSIVE InkUpTo(_)
InkUpTo(n) ==
    IF n = 0 THEN {{}}
    ELSE LET P == InkUpTo(n - 1)
         IN  P \cup {p \cup {c} : p \in P, c \in FontCells}

\* one brightness per cell
WellFormed(face) ==
    \A c, d \in face : (c.code = d.code /\ c.x = d.x /\ c.y = d.y) => c.v = d.v

Faint(face) == {c \in face : c.v <= PIXEL_THRESHOLD}

Faces == {f \in InkUpTo(MaxInk) : WellFormed(f) /\ Cardinality(Faint(f)) <= 1}

\* faces offered to the size search: each mapped glyph paints at most one
\* cell, in row 0, TARGET_MAX_HEIGHT - 1 or TARGET_MAX_HEIGHT
SelRows == {0, TARGET_MAX_HEIGHT - 1, TARGET_MAX_HEIGHT}
SelCell(code, y) == [code |-> code, x |-> CANVAS_SZ \div 4, y |-> y, v |-> 255]
SelGlyphs(code) == {{}} \cup {{SelCell(code, y)} : y \in SelRows}
SelFaces == {a \cup b : a \in SelGlyphs(65), b \in SelGlyphs(135)}
Sizes == SIZE_FIRST..(SizeStop - 1)

VARIABLES
    font,           \* the face at the chosen size (ImageFont.truetype(font_path, best_size))
    pc,             \* position in main
    global_top, global_bot, font_height, vert_bytes,
    idx,            \* position of the pass-2 loop in Codes
    char_widths, char_columns,
    total_size, raw,
    faces,          \* the face of every candidate size
    size,           \* loop variable of find_best_font_size
    best,
    spc,            \* position in find_best_font_size
    visited         \* the candidate sizes evaluated so far, in order

mainVars == <<font, pc, global_top, global_bot, font_height, vert_bytes, idx,
              char_widths, char_columns, total_size, raw>>
selVars == <<faces, size, best, spc, visited>>
vars == <<font, pc, global_top, global_bot, font_height, vert_bytes, idx,
          char_widths, char_columns, total_size, raw,
          faces, size, best, spc, visited>>

(* ---------------- render_char, find_bounds ---------------- *)
\* the canvas of one character: the cells the face paints for it
render_char(face, code) == {c \in face : c.code = code}

\* px[x, y]
Px(px, x, y) ==
    IF \E c \in px : c.x = x /\ c.y = y
    THEN (CHOOSE c \in px : c.x = x /\ c.y = y).v
    ELSE 0

find_bounds(px) ==
    LET on == {c \in px : c.v > PIXEL_THRESHOLD}
    IN  [min_x |-> MinOf({c.x : c \in on} \cup {CANVAS_SZ}),
         max_x |-> MaxOf({c.x : c \in on} \cup {-1}),
         min_y |-> MinOf({c.y : c \in on} \cup {CANVAS_SZ}),
         max_y |-> MaxOf({c.y : c \in on} \cup {-1})]


(* ---------------- main, pass 1 (lines 196-210) ---------------- *)
\* the loop over the repertoire that accumulates global_top / global_bot
RECURSIVE global_bounds(_, _, _, _)
global_bounds(face, i, top, bot) ==
    IF i > Len(Codes) THEN [top |-> top, bot |-> bot]
    ELSE IF Codes[i] \notin GLYPH_MAP THEN global_bounds(face, i + 1, top, bot)
    ELSE LET b == find_bounds(render_char(face, Codes[i]))
         IN  IF b.min_y <= b.max_y
             THEN global_bounds(face, i + 1, Min2(top, b.min_y), Max2(bot, b.max_y))
             ELSE global_bounds(face, i + 1, top, bot)

FontHeight(top, bot) == Min2(bot - top + 1, TARGET_MAX_HEIGHT)
VertBytes(fh) == (fh + 7) \div 8

Pass1 ==
    /\ pc = "pass1"
    /\ LET g == global_bounds(font, 1, CANVAS_SZ, -1)
       IN  /\ global_top' = g.top
           /\ global_bot' = g.bot
           /\ font_height' = FontHeight(g.top, g.bot)
           /\ vert_bytes' = VertBytes(FontHeight(g.top, g.bot))
    /\ pc' = "pass2"
    /\ UNCHANGED <<font, idx, char_widths, char_columns, total_size, raw>>
    /\ UNCHANGED selVars

(* ---------------- main, pass 2 (lines 214-277) ---------------- *)
\* RowBits with the layer-1 bit counted from row 8 (offset = 8)
RowBitsFromRow8(px, cx, row, col_bytes) ==
    LET src_y == global_top + row
    IN  IF src_y < CANVAS_SZ /\ Px(px, cx, src_y) > PIXEL_THRESHOLD
        THEN IF vert_bytes = 1 \/ row < 8
             THEN [col_bytes EXCEPT ![1] = BitOr(@, row)]
             ELSE [col_bytes EXCEPT ![2] = BitOr(@, row - 8)]
        ELSE col_bytes

\* RowBits with the layer boundary off by one (row <= 8 goes to layer 0)
RowBitsBoundary(px, cx, row, col_bytes) ==
    LET src_y == global_top + row
    IN  IF src_y < CANVAS_SZ /\ Px(px, cx, src_y) > PIXEL_THRESHOLD
        THEN IF vert_bytes = 1 \/ row <= 8
             THEN [col_bytes EXCEPT ![1] = BitOr(@, row)]
             ELSE [col_bytes EXCEPT ![2] = BitOr(@, row - (font_height - 8))]
        ELSE col_bytes

\* lines 260-269: the effect of one row of one source column on col_bytes
RowBits(px, cx, row, col_bytes) ==
    LET src_y == global_top + row
    IN  IF src_y < CANVAS_SZ /\ Px(px, cx, src_y) > PIXEL_THRESHOLD
        THEN IF vert_bytes = 1
             THEN [col_bytes EXCEPT ![1] = BitOr(@, row)]
             ELSE IF row < 8
             THEN [col_bytes EXCEPT ![1] = BitOr(@, row)]
             ELSE LET offset == font_height - 8
                      bit == row - offset
                  IN  IF bit >= 0
                      THEN [col_bytes EXCEPT ![2] = BitOr(@, bit)]
                      ELSE col_bytes
        ELSE col_bytes

\* lines 257-258: for row in range(font_height), starting from [0] * vert_bytes
RECURSIVE PackRows(_, _, _, _)
PackRows(px, cx, row, col_bytes) ==
    IF row >= font_height THEN col_bytes
    ELSE PackRows(px, cx, row + 1, RowBits(px, cx, row, col_bytes))

PackColumn(px, cx) == PackRows(px, cx, 0, Zeros(vert_bytes))

\* lines 246-247
Padding(code) == IF is_latin(code) THEN 1 ELSE 0

\* GlyphCols without the right padding column
GlyphColsNoRight(px, code, min_x, max_x) ==
    LET lp == Padding(code)
        n  == max_x - min_x + 1
    IN  [k \in 1..(lp + n) |->
            IF k <= lp THEN Zeros(vert_bytes)
            ELSE PackColumn(px, min_x + (k - lp - 1))]

\* lines 250-274: left padding, one column per cx in min_x..max_x, right padding
GlyphCols(px, code, min_x, max_x) ==
    LET lp == Padding(code)
        rp == Padding(code)
        n  == max_x - min_x + 1
    IN  [k \in 1..(lp + n + rp) |->
            IF k <= lp \/ k > lp + n THEN Zeros(vert_bytes)
            ELSE PackColumn(px, min_x + (k - lp - 1))]

\* SpaceWidth as half the font height
SpaceWidthHalf == Max2(3, font_height \div 2)

\* lines 225-227
SpaceWidth == Max2(3, font_height \div 3)
\* lines 232-233 and 241-242
PlaceholderWidth == 2
Blank(w) == [k \in 1..w |-> Zeros(vert_bytes)]

Advance ==
    /\ idx' = idx + 1
    /\ pc' = IF idx = Len(Codes) THEN "assemble" ELSE "pass2"
    /\ UNCHANGED <<font, global_top, global_bot, font_height, vert_bytes, total_size, raw>>
    /\ UNCHANGED selVars

PackSpace ==
    /\ pc = "pass2"
    /\ Codes[idx] = SPACE_CODE
    /\ char_widths' = Append(char_widths, SpaceWidth)
    /\ char_columns' = Append(char_columns, Blank(SpaceWidth))
    /\ Advance

PackReserved ==
    /\ pc = "pass2"
    /\ Codes[idx] # SPACE_CODE
    /\ Codes[idx] \notin GLYPH_MAP
    /\ char_widths' = Append(char_widths, PlaceholderWidth)
    /\ char_columns' = Append(char_columns, Blank(PlaceholderWidth))
    /\ Advance

PackEmptyBox ==
    /\ pc = "pass2"
    /\ Codes[idx] # SPACE_CODE
    /\ Codes[idx] \in GLYPH_MAP
    /\ LET b == find_bounds(render_char(font, Codes[idx]))
       IN  b.min_x > b.max_x
    /\ char_widths' = Append(char_widths, PlaceholderWidth)
    /\ char_columns' = Append(char_columns, Blank(PlaceholderWidth))
    /\ Advance

PackGlyph ==
    /\ pc = "pass2"
    /\ Codes[idx] # SPACE_CODE
    /\ Codes[idx] \in GLYPH_MAP
    /\ LET px == render_char(font, Codes[idx])
           b  == find_bounds(px)
       IN  /\ b.min_x <= b.max_x
           /\ LET cols == GlyphCols(px, Codes[idx], b.min_x, b.max_x)
              IN  /\ char_widths' = Append(char_widths, Len(cols))
                  /\ char_columns' = Append(char_columns, cols)
    /\ Advance

(* ---------------- main, table assembly (lines 279-299) ---------------- *)
RECURSIVE SumSizes(_, _)
SumSizes(ws, i) ==
    IF i > Len(ws) THEN 0 ELSE ws[i] * vert_bytes + SumSizes(ws, i + 1)

TotalSize(ws) == 6 + CHAR_COUNT + SumSizes(ws, 1)

Header(ts) ==
    << ts % 256, (ts \div 256) % 256, 0, font_height, FIRST_CHAR, CHAR_COUNT >>

WidthTable(ws) == [k \in 1..Len(ws) |-> ws[k] % 256]

\* GlyphBytes with the two loops swapped: column-major, then layer
GlyphBytesByColumn(w, cols) ==
    [n \in 1..(w * vert_bytes) |->
        cols[((n - 1) \div vert_bytes) + 1][((n - 1) % vert_bytes) + 1]]

\* lines 297-299: for layer in range(vert_bytes): for col_idx in range(w)
GlyphBytes(w, cols) ==
    [n \in 1..(w * vert_bytes) |-> cols[((n - 1) % w) + 1][((n - 1) \div w) + 1]]

RECURSIVE GlyphData(_, _, _)
GlyphData(ws, cs, i) ==
    IF i > Len(ws) \/ i > Len(cs) THEN << >>
    ELSE GlyphBytes(ws[i], cs[i]) \o GlyphData(ws, cs, i + 1)

Assemble ==
    /\ pc = "assemble"
    /\ total_size' = TotalSize(char_widths)
    /\ raw' = Header(TotalSize(char_widths)) \o WidthTable(char_widths)
                \o GlyphData(char_widths, char_columns, 1)
    /\ pc' = "done"
    /\ UNCHANGED <<font, global_top, global_bot, font_height, vert_bytes, idx,
                   char_widths, char_columns>>
    /\ UNCHANGED selVars

SelIdle ==
    /\ faces = << >>
    /\ size = SIZE_FIRST
    /\ best = BEST_DEFAULT
    /\ spc = "idle"
    /\ visited = << >>

Init ==
    /\ font \in Faces
    /\ pc = "pass1"
    /\ global_top = CANVAS_SZ
    /\ global_bot = -1
    /\ font_height = 0
    /\ vert_bytes = 0
    /\ idx = 1
    /\ char_widths = << >>
    /\ char_columns = << >>
    /\ total_size = 0
    /\ raw = << >>
    /\ SelIdle

Next ==
    \/ Pass1
    \/ PackSpace
    \/ PackReserved
    \/ PackEmptyBox
    \/ PackGlyph
    \/ Assemble

Spec == Init /\ [][Next]_vars


(* ---------------- find_best_font_size (lines 157-180) ---------------- *)
\* lines 162-172: the repertoire-wide vertical bounds at one candidate size
RECURSIVE g_bounds(_, _, _, _)
g_bounds(face, i, g_top, g_bot) ==
    IF i > Len(Codes) THEN [top |-> g_top, bot |-> g_bot]
    ELSE IF Codes[i] \notin GLYPH_MAP THEN g_bounds(face, i + 1, g_top, g_bot)
    ELSE LET b == find_bounds(render_char(face, Codes[i]))
         IN  IF b.min_y <= b.max_y
             THEN g_bounds(face, i + 1, Min2(g_top, b.min_y), Max2(g_bot, b.max_y))
             ELSE g_bounds(face, i + 1, g_top, g_bot)

\* Outcome that keeps searching after a candidate that does not fit
OutcomeNoBreak(face, max_height) ==
    LET g == g_bounds(face, 1, CANVAS_SZ, -1)
        h == g.bot - g.top + 1
    IN  IF g.top > g.bot THEN "continue"
        ELSE IF h <= max_height THEN "best"
        ELSE "continue"

\* Outcome without the test for a candidate that rendered nothing
OutcomeNoSkip(face, max_height) ==
    LET g == g_bounds(face, 1, CANVAS_SZ, -1)
        h == g.bot - g.top + 1
    IN  IF h <= max_height THEN "best" ELSE "break"

\* lines 173-179: what the loop body decides for one candidate
Outcome(face, max_height) ==
    LET g == g_bounds(face, 1, CANVAS_SZ, -1)
        h == g.bot - g.top + 1
    IN  IF g.top > g.bot THEN "continue"
        ELSE IF h <= max_height THEN "best"
        ELSE "break"

SizeSkip ==
    /\ spc = "search"
    /\ size < SizeStop
    /\ Outcome(faces[size], TARGET_MAX_HEIGHT) = "continue"
    /\ visited' = Append(visited, size)
    /\ size' = size + 1
    /\ UNCHANGED <<faces, best, spc>>
    /\ UNCHANGED mainVars

SizeFits ==
    /\ spc = "search"
    /\ size < SizeStop
    /\ Outcome(faces[size], TARGET_MAX_HEIGHT) = "best"
    /\ visited' = Append(visited, size)
    /\ best' = size
    /\ size' = size + 1
    /\ UNCHANGED <<faces, spc>>
    /\ UNCHANGED mainVars

SizeOverflow ==
    /\ spc = "search"
    /\ size < SizeStop
    /\ Outcome(faces[size], TARGET_MAX_HEIGHT) = "break"
    /\ visited' = Append(visited, size)
    /\ spc' = "returned"
    /\ UNCHANGED <<faces, best, size>>
    /\ UNCHANGED mainVars

\* the range is exhausted: return best
SizeExhausted ==
    /\ spc = "search"
    /\ size = SizeStop
    /\ spc' = "returned"
    /\ UNCHANGED <<faces, best, size, visited>>
    /\ UNCHANGED mainVars

MainIdle ==
    /\ font = {}
    /\ pc = "idle"
    /\ global_top = CANVAS_SZ
    /\ global_bot = -1
    /\ font_height = 0
    /\ vert_bytes = 0
    /\ idx = 1
    /\ char_widths = << >>
    /\ char_columns = << >>
    /\ total_size = 0
    /\ raw = << >>

InitSel ==
    /\ faces \in [Sizes -> SelFaces]
    /\ size = SIZE_FIRST
    /\ best = BEST_DEFAULT
    /\ spc = "search"
    /\ visited = << >>
    /\ MainIdle

NextSel ==
    \/ SizeSkip
    \/ SizeFits
    \/ SizeOverflow
    \/ SizeExhausted

SpecSel == InitSel /\ [][NextSel]_vars


(***************************************************************************)
(* Properties of the table (specification Spec)                            *)
(***************************************************************************)
Packed == 1..Len(char_widths)
AfterPass1 == pc \in {"pass2", "assemble", "done"}
CanvasOf(i) == render_char(font, Codes[i])
\* columns and rows of the canvas px that hold a pixel above the threshold
LitCols(px) == {c.x : c \in {d \in px : d.v > PIXEL_THRESHOLD}}
LitRows(px) == {c.y : c \in {d \in px : d.v > PIXEL_THRESHOLD}}
\* glyph i is a mapped code whose render has a non-empty bounding box
HasContent(i) ==
    /\ Codes[i] # SPACE_CODE
    /\ Codes[i] \in GLYPH_MAP
    /\ LitCols(CanvasOf(i)) # {}
\* a mapped code whose render has an empty bounding box
EmptyBox(i) ==
    /\ Codes[i] # SPACE_CODE
    /\ Codes[i] \in GLYPH_MAP
    /\ LitCols(CanvasOf(i)) = {}
AsciiPad(i) == IF Codes[i] \in 32..126 THEN 1 ELSE 0
\* the pixel (x, y) of the canvas px is in range and above the threshold
PixelOn(px, x, y) ==
    /\ x \in 0..(CANVAS_SZ - 1)
    /\ y \in 0..(CANVAS_SZ - 1)
    /\ \E c \in px : c.x = x /\ c.y = y /\ c.v > PIXEL_THRESHOLD
AllZero(cols) == \A k \in 1..Len(cols) : \A l \in 1..Len(cols[k]) : cols[k][l] = 0
RECURSIVE DataBefore(_)
DataBefore(i) ==
    IF i <= 1 THEN 0 ELSE char_widths[i - 1] * vert_bytes + DataBefore(i - 1)
Stored16 == raw[1] + 256 * raw[2]

\* C1: the 16-bit little-endian value in bytes 0..1 of the emitted sequence
\* equals 6 + char_count + sum(width_i * vert_bytes), and equals the length
\* of the emitted sequence, in every run that reaches table assembly.
C1_TotalSizeIsLength ==
    pc = "done" =>
        /\ Stored16 = 6 + CHAR_COUNT + DataBefore(CHAR_COUNT + 1)
        /\ Stored16 = Len(raw)

\* C2: header order total_size low, total_size high, 0, height, first_char,
\* char_count, then the widths in repertoire order, then the glyph data
\* per-glyph-major, layer-major, column-major: byte
\* 6 + char_count + (data of the glyphs before i) + L * width_i + c
\* is layer L of column c of glyph i.
C2_Layout ==
    pc = "done" =>
        /\ Len(raw) >= 6 + CHAR_COUNT
        /\ raw[1] = total_size % 256
        /\ raw[2] = (total_size \div 256) % 256
        /\ raw[3] = 0
        /\ raw[4] = font_height
        /\ raw[5] = FIRST_CHAR
        /\ raw[6] = CHAR_COUNT
        /\ \A i \in 1..CHAR_COUNT : raw[6 + i] = char_widths[i]
        /\ \A i \in 1..CHAR_COUNT :
             LET w == char_widths[i]
                 start == 6 + CHAR_COUNT + DataBefore(i)
             IN  \A L \in 0..(vert_bytes - 1) : \A c \in 0..(w - 1) :
                   /\ start + L * w + c + 1 <= Len(raw)
                   /\ raw[start + L * w + c + 1] = char_columns[i][c + 1][L + 1]

\* a finished two-layer table whose first glyph is a padded Latin glyph with
\* two different content columns, one of them with a bit in layer 1
C2_Witness ==
    /\ pc = "done"
    /\ vert_bytes = 2
    /\ char_widths[1] = 4
    /\ char_columns[1][2] # char_columns[1][3]
    /\ \E c \in 2..3 : char_columns[1][c][2] # 0

\* C5: for every code the recorded width is the number of columns packed and
\* is at least 1; for a mapped code with a non-empty box it is the box width
\* plus 2 (one all-zero column on each side) for codes 0x20..0x7E and exactly
\* the box width for every other code.
C5_Widths ==
    /\ Len(char_widths) = Len(char_columns)
    /\ \A i \in Packed :
         LET w == char_widths[i]
             lit == LitCols(CanvasOf(i))
         IN  /\ w = Len(char_columns[i])
             /\ w >= 1
             /\ HasContent(i) =>
                  IF Codes[i] \in 32..126
                  THEN /\ w = (MaxOf(lit) - MinOf(lit) + 1) + 2
                       /\ AllZero(<<char_columns[i][1], char_columns[i][w]>>)
                  ELSE w = MaxOf(lit) - MinOf(lit) + 1
    /\ pc = "done" => \A i \in 1..CHAR_COUNT : raw[6 + i] = Len(char_columns[i])

\* both mapped glyphs rendered one column wide: widths 3 (Latin, padded) and
\* 1 (Arabic) in a finished table
C5_Witness ==
    /\ pc = "done"
    /\ HasContent(1)
    /\ HasContent(2)
    /\ char_widths[1] = 3
    /\ char_widths[2] = 1

\* C6: placeholders carry no set bits: SPACE has width max(3, font_height // 3),
\* an unmapped code has width 2, a mapped code with an empty bounding box has
\* width 2 and the run goes on; every column byte of the three is zero.
C6_Placeholders ==
    \A i \in Packed :
        /\ Codes[i] = SPACE_CODE =>
             /\ char_widths[i] = (IF font_height \div 3 > 3 THEN font_height \div 3 ELSE 3)
             /\ Len(char_columns[i]) = char_widths[i]
             /\ AllZero(char_columns[i])
        /\ (Codes[i] # SPACE_CODE /\ Codes[i] \notin GLYPH_MAP) =>
             /\ char_widths[i] = 2
             /\ Len(char_columns[i]) = 2
             /\ AllZero(char_columns[i])
        /\ EmptyBox(i) =>
             /\ char_widths[i] = 2
             /\ Len(char_columns[i]) = 2
             /\ AllZero(char_columns[i])
             /\ pc \in {"pass2", "assemble", "done"}

\* a finished table in which the Arabic glyph painted a cell that is not
\* above the threshold (empty box), next to a Latin glyph, SPACE and the
\* unmapped code
C6_Witness ==
    /\ pc = "done"
    /\ vert_bytes = 1
    /\ CanvasOf(2) # {}
    /\ EmptyBox(2)
    /\ char_widths = <<3, 2, 3, 2>>

\* C7 as stated: font_height > 8 gives vert_bytes = 2, and at font_height 9
\* an on pixel at row 8 sets bit 0 of the column's layer-1 byte.
C7_Row8Bit0 ==
    AfterPass1 =>
        /\ font_height > 8 => vert_bytes = 2
        /\ font_height = 9 =>
             \A i \in Packed : HasContent(i) =>
               LET px == CanvasOf(i)
                   lit == LitCols(px)
               IN  \A x \in MinOf(lit)..MaxOf(lit) :
                     PixelOn(px, x, global_top + 8) =>
                       Bit(char_columns[i][AsciiPad(i) + (x - MinOf(lit)) + 1][2], 0) = 1

\* C7 amended: font_height > 8 gives vert_bytes = 2, and at font_height 9 an
\* on pixel at row 8 sets bit 7 (= 8 - (font_height - 8)) of the column's
\* layer-1 byte, and bit 0 of that byte is never set.
C7_Row8Bit7 ==
    AfterPass1 =>
        /\ font_height > 8 => vert_bytes = 2
        /\ font_height = 9 =>
             \A i \in Packed : HasContent(i) =>
               LET px == CanvasOf(i)
                   lit == LitCols(px)
               IN  \A x \in MinOf(lit)..MaxOf(lit) :
                     LET col == char_columns[i][AsciiPad(i) + (x - MinOf(lit)) + 1]
                     IN  /\ PixelOn(px, x, global_top + 8) => Bit(col[2], 7) = 1
                         /\ Bit(col[2], 0) = 0

\* font_height is 9 and a packed column has its row-8 pixel on
C7_Witness ==
    /\ AfterPass1
    /\ font_height = 9
    /\ \E i \in Packed :
         /\ HasContent(i)
         /\ \E x \in LitCols(CanvasOf(i)) : PixelOn(CanvasOf(i), x, global_top + 8)

C10_HeightRange ==
    AfterPass1 =>
        /\ font_height >= 1
        /\ font_height <= TARGET_MAX_HEIGHT
        /\ vert_bytes = (IF font_height <= 8 THEN 1 ELSE 2)
        /\ \A i \in Packed : \A k \in 1..Len(char_columns[i]) :
             Len(char_columns[i][k]) = vert_bytes /\ vert_bytes \in {1, 2}
        /\ pc = "done" => raw[4] \in 1..255

(***************************************************************************)
(* Properties of the size search (specification SpecSel)                   *)
(***************************************************************************)
\* rows above the threshold over every mapped glyph at candidate size s
RowsOn(s) ==
    {c.y : c \in {d \in faces[s] : d.code \in GLYPH_MAP /\ d.v > PIXEL_THRESHOLD}}
HasExtent(s) == RowsOn(s) # {}
Extent(s) == MaxOf(RowsOn(s)) - MinOf(RowsOn(s)) + 1
Fitting(s) == HasExtent(s) /\ Extent(s) <= TARGET_MAX_HEIGHT
Overflowing(s) == HasExtent(s) /\ Extent(s) > TARGET_MAX_HEIGHT
Evaluated == {visited[k] : k \in 1..Len(visited)}
\* fitting candidates that no overflowing candidate precedes
FitBeforeOverflow ==
    {s \in Sizes : Fitting(s) /\ \A t \in Sizes : t < s => ~Overflowing(t)}

C4_SmallestWhenNoneFits ==
    (spc = "returned" /\ \A s \in Sizes : ~Fitting(s)) => best = SIZE_FIRST

C9_Order ==
    /\ \A k \in 1..Len(visited) : visited[k] = SIZE_FIRST + k - 1
    /\ \A k \in 1..(Len(visited) - 1) : ~Overflowing(visited[k])
    /\ \A s \in Evaluated : Overflowing(s) => spc = "returned"
    /\ spc = "returned" =>
         \/ Len(visited) >= 1 /\ Overflowing(visited[Len(visited)])
         \/ Evaluated = Sizes
    /\ LET fit == {s \in Evaluated : Fitting(s)}
       IN  best = (IF fit = {} THEN BEST_DEFAULT ELSE MaxOf(fit))

C9_EmptyStep ==
    (spc = "search" /\ size \in Sizes /\ ~HasExtent(size)) =>
        (best' = best /\ spc' = "search" /\ size' = size + 1)

====
